---- MODULE Spec2Model ----
(***************************************************************************)
(* Model of ErrorRegistry (src/mod.ts): the entry array, the observer      *)
(* array, and the wrapper that catchError() installs on a method.          *)
(*                                                                         *)
(* Execution is single-threaded.  Calls made by an original method or by   *)
(* an observer while a wrapped call is in progress are modelled with an    *)
(* explicit call stack; only the top frame takes steps.                    *)
(*                                                                         *)
(* unregisterObserver assigns a new array to this.errorRegistryObservers   *)
(* while registerObserver pushes onto the array in place.  A for...of      *)
(* loop keeps the array object it started on, so every iterating frame     *)
(* records whether its array is still the registry's current one (live)    *)
(* or an array the registry has since replaced (arr, never written         *)
(* again).                                                                 *)
(***************************************************************************)
EXTENDS Integers, Sequences, FiniteSets, TLC

\* ------------------------------------------------------------------ bounds
MaxEntries == 2      \* catches in one behaviour
MaxObservers == 2    \* length of the observer array
MaxDepth == 2        \* frames on the call stack
NestDepth == 4       \* frames on the call stack, specification SpecNested

\* ------------------------------------------------------------------ inputs
Observers == {"o1", "o2"}
DataObservers == {"o1"}

Boom == [name |-> "Error", message |-> "boom"]
Oops == [name |-> "TypeError", message |-> "oops"]
Thrown == {Boom, Oops}

Results == {"undefined", "ok"}
Args == {"a1", "a2"}

\* A decorated method: the class whose body carries the decorator, the
\* property key, and whether the member is static.
RiskyOperation == [cls |-> "T", name |-> "riskyOperation", static |-> FALSE]
Configure == [cls |-> "T", name |-> "configure", static |-> TRUE]
Methods == {RiskyOperation, Configure}

\* Receivers a method is invoked on: an instance of T or of its subclass U
\* for an instance method, the class object for a static one.
Receivers(m) == IF m.static THEN {"class T"} ELSE {"t1", "u1"}

\* The target the decorator receives: the prototype of the class for an
\* instance member, the constructor function for a static member.
Target(m) ==
  IF m.static THEN [kind |-> "constructor", cls |-> m.cls]
  ELSE [kind |-> "prototype", cls |-> m.cls]

\* target.constructor.name: the constructor of a prototype is its class,
\* the constructor of a constructor function is Function.
ConstructorName(target) ==
  IF target.kind = "prototype" THEN target.cls ELSE "Function"

\* method.name: a function defined with method syntax is named by its key.
MethodName(m) == m.name

NoError == [name |-> "none", message |-> "none"]
NoMethod == [cls |-> "none", name |-> "none", static |-> FALSE]
NoEntry ==
  [error |-> NoError, context |-> "none", constructor_name |-> "none",
   method_name |-> "none", timestamp |-> 0]

VARIABLES
  errorRegistryEntries,   \* contents of this.errorRegistryEntries
  errorRegistryObservers, \* contents of this.errorRegistryObservers
  stack,                  \* call stack, top is the last element
  now,                    \* logical time: the value of the next new Date()
  thrownSinceClear,       \* history: throws of original methods since the
                          \* last clearRegistry
  registered,             \* history: per observer, registerObserver calls
                          \* since its last unregisterObserver
  barred,                 \* history: observers unregistered and not
                          \* registered again since
  held,                   \* the array a caller got from getRegistry() and
                          \* kept
  last                    \* history: the step just taken and its result

vars ==
  <<errorRegistryEntries, errorRegistryObservers, stack, now,
    thrownSinceClear, registered, barred, held, last>>

\* ----------------------------------------------------------------- helpers
Top == stack[Len(stack)]
Pop(s) == SubSeq(s, 1, Len(s) - 1)
Count(seq, o) == Cardinality({i \in DOMAIN seq : seq[i] = o})
IsPrefix(a, b) == Len(a) <= Len(b) /\ SubSeq(b, 1, Len(a)) = a

\* A stack frame.  kind "body": descriptor.value is running the original
\* method.  kind "notify": it is in its catch block, inside notifyObservers.
\* kind "observer": an observer called by the frame below is running.
\* snap, seen, grew and ban are history: the observer list when the entry
\* was recorded, the observers called with it so far, whether
\* registerObserver ran since, and the observers barred at that moment.
NoFrame ==
  [kind |-> "none", method |-> NoMethod, recv |-> "none", args |-> "none",
   entry |-> NoEntry, live |-> FALSE, arr |-> <<>>, idx |-> 0,
   snap |-> <<>>, seen |-> <<>>, grew |-> FALSE, ban |-> {}, obs |-> "none"]

NoLast ==
  [op |-> "init", obs |-> "none", entry |-> NoEntry, method |-> NoMethod,
   recv |-> "none", args |-> "none", outcome |-> "none", value |-> "none",
   orig |-> "none", error |-> NoError, thrown |-> NoError, snap |-> <<>>,
   seen |-> <<>>, grew |-> FALSE, out |-> <<>>, count |-> 0]

\* Application code is running: at top level, inside an original method,
\* or inside an observer.
UserCode ==
  IF stack = <<>> THEN TRUE ELSE Top.kind \in {"body", "observer"}

\* A reference to an entry array kept by a caller of getRegistry(): none,
\* the registry's current array (alias "live"), or an array the registry
\* has replaced since (alias "old", contents arr, never written again).
\* cleared is history: clearRegistry ran since the reference was returned.
NoHeld == [alias |-> "none", arr |-> <<>>, cleared |-> FALSE]

\* What the caller reads through the kept reference.
HeldView == IF held.alias = "live" THEN errorRegistryEntries ELSE held.arr

\* The array a notifying frame iterates.
IterArray(f) == IF f.live THEN errorRegistryObservers ELSE f.arr

\* The rounds the loop of frame f still has to make when the observer list
\* is observers: the iterator ends once its index passes the length.
RoundsLeft(f, observers) ==
  Len(IF f.live THEN observers ELSE f.arr) - f.idx + 1

\* --------------------------------------------------------------------- Init
Init ==
  /\ errorRegistryEntries = <<>>
  /\ errorRegistryObservers = <<>>
  /\ stack = <<>>
  /\ now = 1
  /\ thrownSinceClear = 0
  /\ registered = [o \in Observers |-> 0]
  /\ barred = {}
  /\ held = NoHeld
  /\ last = NoLast

\* ------------------------------------------------------------------ actions
\* getRegistry(): return this.errorRegistryEntries.
getRegistry ==
  /\ UserCode
  /\ last' = [NoLast EXCEPT !.op = "getRegistry", !.out = errorRegistryEntries]
  /\ UNCHANGED <<errorRegistryEntries, errorRegistryObservers, stack, now,
                 thrownSinceClear, registered, barred, held>>

GetRegistryCopy(entries) ==
  [alias |-> "old", arr |-> entries, cleared |-> FALSE]

\* return this.errorRegistryEntries: the array itself, not a copy.
GetRegistryResult(entries) ==
  [alias |-> "live", arr |-> <<>>, cleared |-> FALSE]

\* const registry = getRegistry(): the caller keeps the returned array.
holdRegistry ==
  /\ UserCode
  /\ held' = GetRegistryResult(errorRegistryEntries)
  /\ last' = [NoLast EXCEPT !.op = "holdRegistry", !.out = errorRegistryEntries]
  /\ UNCHANGED <<errorRegistryEntries, errorRegistryObservers, stack, now,
                 thrownSinceClear, registered, barred>>

\* The kept reference after this.errorRegistryEntries is assigned a new
\* array: it stays on the replaced array.
Detach(h, entries) ==
  IF h.alias = "none" THEN h
  ELSE [alias |-> "old",
        arr |-> IF h.alias = "live" THEN entries ELSE h.arr,
        cleared |-> TRUE]

ClearedKeepsTail(old) == IF old = <<>> THEN <<>> ELSE Tail(old)

\* The array literal assigned by clearRegistry.
ClearedContents(old) == <<>>

clearRegistryNotifies ==
  /\ UserCode
  /\ errorRegistryEntries' = <<>>
  /\ held' = Detach(held, errorRegistryEntries)
  /\ thrownSinceClear' = 0
  /\ stack' = IF errorRegistryObservers = <<>> THEN stack
              ELSE Append(stack, [NoFrame EXCEPT
                                    !.kind = "observer",
                                    !.obs = errorRegistryObservers[1]])
  /\ last' = [NoLast EXCEPT !.op = "clearRegistry",
                            !.count = Len(errorRegistryEntries)]
  /\ UNCHANGED <<errorRegistryObservers, now, registered, barred>>

\* clearRegistry(): this.errorRegistryEntries = [].
clearRegistry ==
  /\ UserCode
  /\ errorRegistryEntries' = ClearedContents(errorRegistryEntries)
  /\ held' = Detach(held, errorRegistryEntries)
  /\ thrownSinceClear' = 0
  /\ last' = [NoLast EXCEPT !.op = "clearRegistry",
                            !.count = Len(errorRegistryEntries)]
  /\ UNCHANGED <<errorRegistryObservers, stack, now, registered, barred>>

PushUnique(arr, o) ==
  IF \E i \in DOMAIN arr : arr[i] = o THEN arr ELSE Append(arr, o)

\* Array.prototype.push on the observer array.
Push(arr, o) == Append(arr, o)

\* registerObserver(observer): push onto the current array, in place, so
\* frames iterating that array see the new element.
registerObserver(o) ==
  /\ UserCode
  /\ Len(errorRegistryObservers) < MaxObservers
  /\ errorRegistryObservers' = Push(errorRegistryObservers, o)
  /\ registered' = [registered EXCEPT ![o] = @ + 1]
  /\ barred' = barred \ {o}
  /\ stack' = [i \in DOMAIN stack |->
                 IF stack[i].kind = "notify"
                 THEN [stack[i] EXCEPT !.grew = TRUE, !.ban = @ \ {o}]
                 ELSE stack[i]]
  /\ last' = [NoLast EXCEPT !.op = "registerObserver", !.obs = o]
  /\ UNCHANGED <<errorRegistryEntries, now, thrownSinceClear, held>>

RECURSIVE RemoveFirst(_, _)
RemoveFirst(arr, o) ==
  IF arr = <<>> THEN <<>>
  ELSE IF Head(arr) = o THEN Tail(arr)
  ELSE <<Head(arr)>> \o RemoveFirst(Tail(arr), o)

FilterEqual(arr, o) == SelectSeq(arr, LAMBDA x : x = o)

\* Array.prototype.filter((o) => o !== observer): a new array.
Filter(arr, o) == SelectSeq(arr, LAMBDA x : x # o)

\* unregisterObserver(observer): assign the filtered copy.  Frames that were
\* iterating the replaced array keep it.
unregisterObserver(o) ==
  /\ UserCode
  /\ errorRegistryObservers' = Filter(errorRegistryObservers, o)
  /\ stack' = [i \in DOMAIN stack |->
                 IF stack[i].kind = "notify" /\ stack[i].live
                 THEN [stack[i] EXCEPT !.live = FALSE,
                                       !.arr = errorRegistryObservers]
                 ELSE stack[i]]
  /\ registered' = [registered EXCEPT ![o] = 0]
  /\ barred' = barred \cup {o}
  /\ last' = [NoLast EXCEPT !.op = "unregisterObserver", !.obs = o,
                            !.snap = errorRegistryObservers,
                            !.outcome = "return"]
  /\ UNCHANGED <<errorRegistryEntries, now, thrownSinceClear, held>>

\* The record logRegistry prints for one entry.
LogRecord(e) ==
  [error |-> [name |-> e.error.name, message |-> e.error.message],
   context |-> e.context, constructor_name |-> e.constructor_name,
   method_name |-> e.method_name, timestamp |-> e.timestamp]

\* logRegistry(): console.error one record per entry, in order.
logRegistry ==
  /\ UserCode
  /\ last' = [NoLast EXCEPT !.op = "logRegistry",
                            !.out = [i \in DOMAIN errorRegistryEntries |->
                                       LogRecord(errorRegistryEntries[i])]]
  /\ UNCHANGED <<errorRegistryEntries, errorRegistryObservers, stack, now,
                 thrownSinceClear, registered, barred, held>>

\* A call of a wrapped method: descriptor.value starts
\* method.apply(this, args).  d bounds the frames on the stack.
CallWithin(m, r, a, d) ==
  /\ UserCode
  /\ Len(stack) + 2 <= d
  /\ stack' = Append(stack, [NoFrame EXCEPT !.kind = "body", !.method = m,
                                            !.recv = r, !.args = a])
  /\ last' = [NoLast EXCEPT !.op = "call", !.method = m, !.recv = r,
                            !.args = a]
  /\ UNCHANGED <<errorRegistryEntries, errorRegistryObservers, now,
                 thrownSinceClear, registered, barred, held>>

Call(m, r, a) == CallWithin(m, r, a, MaxDepth)

WrapperReturnsNothing(v) == "undefined"

\* try { return method.apply(this, args) }: what the wrapper returns when
\* the original method returned v.
WrapperReturn(v) == v

\* The original method returns v.
MethodReturn(v) ==
  /\ stack # <<>>
  /\ Top.kind = "body"
  /\ stack' = Pop(stack)
  /\ last' = [NoLast EXCEPT !.op = "methodReturn", !.method = Top.method,
                            !.recv = Top.recv, !.args = Top.args,
                            !.outcome = "return", !.orig = v,
                            !.value = WrapperReturn(v)]
  /\ UNCHANGED <<errorRegistryEntries, errorRegistryObservers, now,
                 thrownSinceClear, registered, barred, held>>

\* The entry literal built by pushErrorToRegistry.
MakeEntry(x, ctx, cname, mname, t) ==
  [error |-> x, context |-> ctx, constructor_name |-> cname,
   method_name |-> mname, timestamp |-> t]

PushEntryKeepsLatest(arr, e) == <<e>>

PushEntryAtFront(arr, e) == <<e>> \o arr

\* this.errorRegistryEntries.push(entry)
PushEntry(arr, e) == Append(arr, e)

\* The original method throws x.  The wrapper catches it; pushErrorToRegistry
\* builds the entry and appends it; notifyObservers starts a for...of loop
\* over the current observer array.
MethodThrow(x) ==
  /\ stack # <<>>
  /\ Top.kind = "body"
  /\ now <= MaxEntries
  /\ LET e == MakeEntry(x, Top.recv, ConstructorName(Target(Top.method)),
                        MethodName(Top.method), now)
     IN
       /\ errorRegistryEntries' = PushEntry(errorRegistryEntries, e)
       /\ stack' = [stack EXCEPT ![Len(stack)] =
                      [NoFrame EXCEPT !.kind = "notify", !.entry = e,
                                      !.method = Top.method, !.live = TRUE,
                                      !.idx = 1,
                                      !.snap = errorRegistryObservers,
                                      !.ban = barred]]
       /\ last' = [NoLast EXCEPT !.op = "catch", !.method = Top.method,
                                 !.recv = Top.recv, !.args = Top.args,
                                 !.thrown = x, !.entry = e,
                                 !.snap = errorRegistryObservers]
  /\ now' = now + 1
  /\ thrownSinceClear' = thrownSinceClear + 1
  /\ UNCHANGED <<errorRegistryObservers, registered, barred, held>>

NextObserverReversed(arr, idx) == arr[Len(arr) + 1 - idx]

\* The element the array iterator yields at position idx.
NextObserver(arr, idx) == arr[idx]

InvokeSkipsRunning ==
  /\ stack # <<>>
  /\ Top.kind = "notify"
  /\ Top.idx <= Len(IterArray(Top))
  /\ LET o == NextObserver(IterArray(Top), Top.idx)
         running == \E i \in DOMAIN stack :
                      stack[i].kind = "observer" /\ stack[i].obs = o
     IN
       IF running
       THEN /\ stack' = [stack EXCEPT ![Len(stack)].idx = @ + 1]
            /\ last' = [NoLast EXCEPT !.op = "skip", !.obs = o,
                                      !.entry = Top.entry]
       ELSE /\ stack' = Append([stack EXCEPT ![Len(stack)].idx = @ + 1,
                                             ![Len(stack)].seen = Append(@, o)],
                               [NoFrame EXCEPT !.kind = "observer", !.obs = o,
                                               !.entry = Top.entry])
            /\ last' = [NoLast EXCEPT !.op = "invoke", !.obs = o,
                                      !.entry = Top.entry]
  /\ UNCHANGED <<errorRegistryEntries, errorRegistryObservers, now,
                 thrownSinceClear, registered, barred, held>>

\* One round of for (const observer of this.errorRegistryObservers)
\* observer(entry): the iterator reads the length of its array again at
\* every round and calls the next element.
Invoke ==
  /\ stack # <<>>
  /\ Top.kind = "notify"
  /\ Top.idx <= Len(IterArray(Top))
  /\ LET o == NextObserver(IterArray(Top), Top.idx)
     IN
       /\ stack' = Append([stack EXCEPT ![Len(stack)].idx = @ + 1,
                                        ![Len(stack)].seen = Append(@, o)],
                          [NoFrame EXCEPT !.kind = "observer", !.obs = o,
                                          !.entry = Top.entry])
       /\ last' = [NoLast EXCEPT !.op = "invoke", !.obs = o,
                                 !.entry = Top.entry]
  /\ UNCHANGED <<errorRegistryEntries, errorRegistryObservers, now,
                 thrownSinceClear, registered, barred, held>>

\* An observer returns normally; the loop goes on.
ObserverReturn ==
  /\ stack # <<>>
  /\ Top.kind = "observer"
  /\ stack' = Pop(stack)
  /\ last' = [NoLast EXCEPT !.op = "observerReturn", !.obs = Top.obs,
                            !.entry = Top.entry]
  /\ UNCHANGED <<errorRegistryEntries, errorRegistryObservers, now,
                 thrownSinceClear, registered, barred, held>>

NotifyAbortSwallows(x) == [outcome |-> "return", error |-> NoError]

\* How the wrapped call ends when an observer throws x: notifyObservers,
\* pushErrorToRegistry and the catch block have no handler.
NotifyAbort(x) == [outcome |-> "throw", error |-> x]

ObserverThrowContinues(x) ==
  /\ stack # <<>>
  /\ Top.kind = "observer"
  /\ LET n == stack[Len(stack) - 1]
     IN
       /\ stack' = Pop(stack)
       /\ last' = [NoLast EXCEPT !.op = "observerThrow", !.obs = Top.obs,
                                 !.entry = n.entry, !.method = n.method,
                                 !.snap = n.snap, !.seen = n.seen,
                                 !.grew = n.grew, !.thrown = x,
                                 !.outcome = "throw", !.error = x]
  /\ UNCHANGED <<errorRegistryEntries, errorRegistryObservers, now,
                 thrownSinceClear, registered, barred, held>>

\* An observer throws x: the loop and the wrapped call end with it.
ObserverThrow(x) ==
  /\ stack # <<>>
  /\ Top.kind = "observer"
  /\ LET n == stack[Len(stack) - 1]
         r == NotifyAbort(x)
     IN
       /\ stack' = Pop(Pop(stack))
       /\ last' = [NoLast EXCEPT !.op = "observerThrow", !.obs = Top.obs,
                                 !.entry = n.entry, !.method = n.method,
                                 !.snap = n.snap, !.seen = n.seen,
                                 !.grew = n.grew, !.thrown = x,
                                 !.outcome = r.outcome, !.error = r.error]
  /\ UNCHANGED <<errorRegistryEntries, errorRegistryObservers, now,
                 thrownSinceClear, registered, barred, held>>

CatchPathRethrows(e) ==
  [outcome |-> "throw", value |-> "none", error |-> e.error]

\* The catch block ends without a return statement.
CatchPathResult(e) ==
  [outcome |-> "return", value |-> "undefined", error |-> NoError]

\* The iterator is exhausted: notifyObservers, pushErrorToRegistry and the
\* catch block end, and the wrapped call returns.
NotifyDone ==
  /\ stack # <<>>
  /\ Top.kind = "notify"
  /\ Top.idx > Len(IterArray(Top))
  /\ stack' = Pop(stack)
  /\ LET r == CatchPathResult(Top.entry)
     IN last' = [NoLast EXCEPT !.op = "notifyDone", !.entry = Top.entry,
                               !.method = Top.method, !.snap = Top.snap,
                               !.seen = Top.seen, !.grew = Top.grew,
                               !.outcome = r.outcome, !.value = r.value,
                               !.error = r.error]
  /\ UNCHANGED <<errorRegistryEntries, errorRegistryObservers, now,
                 thrownSinceClear, registered, barred, held>>

\* ----------------------------------------------------------- specifications
\* Spec: every interleaving of the API with two observers; one instance
\* method that throws one error, so that the control flow is explored fully.
Next ==
  \/ getRegistry
  \/ clearRegistry
  \/ \E o \in Observers : registerObserver(o)
  \/ \E o \in Observers : unregisterObserver(o)
  \/ logRegistry
  \/ Call(RiskyOperation, "t1", "a1")
  \/ \E v \in Results : MethodReturn(v)
  \/ MethodThrow(Boom)
  \/ Invoke
  \/ ObserverReturn
  \/ \E x \in Thrown : ObserverThrow(x)
  \/ NotifyDone

Spec == Init /\ [][Next]_vars

\* SpecData: every method, receiver, argument and thrown value, with one
\* observer, so that the contents of the entries are explored fully.
NextData ==
  \/ getRegistry
  \/ clearRegistry
  \/ \E o \in DataObservers : registerObserver(o)
  \/ \E o \in DataObservers : unregisterObserver(o)
  \/ logRegistry
  \/ \E m \in Methods : \E r \in Receivers(m) : \E a \in Args : Call(m, r, a)
  \/ \E v \in Results : MethodReturn(v)
  \/ \E x \in Thrown : MethodThrow(x)
  \/ Invoke
  \/ ObserverReturn
  \/ ObserverThrow(Oops)
  \/ NotifyDone

SpecData == Init /\ [][NextData]_vars

\* SpecView: as Spec with one observer, and a caller that keeps the array
\* getRegistry() returned.
NextView ==
  \/ getRegistry
  \/ holdRegistry
  \/ clearRegistry
  \/ \E o \in DataObservers : registerObserver(o)
  \/ \E o \in DataObservers : unregisterObserver(o)
  \/ logRegistry
  \/ Call(RiskyOperation, "t1", "a1")
  \/ \E v \in Results : MethodReturn(v)
  \/ MethodThrow(Boom)
  \/ Invoke
  \/ ObserverReturn
  \/ ObserverThrow(Oops)
  \/ NotifyDone

SpecView == Init /\ [][NextView]_vars

\* SpecNested: calls of wrapped methods made by original methods and by
\* observers, down to NestDepth frames; observers are unregistered at top
\* level and by the outermost original method or observer.
NextNested ==
  \/ clearRegistry
  \/ \E o \in Observers : registerObserver(o)
  \/ \E o \in Observers : Len(stack) <= 2 /\ unregisterObserver(o)
  \/ CallWithin(RiskyOperation, "t1", "a1", NestDepth)
  \/ MethodReturn("undefined")
  \/ MethodThrow(Boom)
  \/ Invoke
  \/ ObserverReturn
  \/ ObserverThrow(Oops)
  \/ NotifyDone

SpecNested == Init /\ [][NextNested]_vars

\* ------------------------------------------------------------------- claims
\* A wrapped call whose original method threw has just ended.
ThrowingCallEnded == last.op \in {"notifyDone", "observerThrow"}

\* C1 as stated: every wrapped call whose original method throws returns
\* undefined and no error propagates out of it, whatever observers are
\* registered.
C1_AlwaysReturnsUndefined ==
  ThrowingCallEnded => last.outcome = "return" /\ last.value = "undefined"

\* C1 amended: a wrapped call whose original method throws ends by returning
\* undefined, with no error propagating, when no observer throws during its
\* notification; it ends with an error only when an observer threw, and
\* then with that observer's error.
C1_ReturnsUndefinedUnlessObserverThrows ==
  /\ last.op = "notifyDone" =>
       last.outcome = "return" /\ last.value = "undefined"
                               /\ last.error = NoError
  /\ ThrowingCallEnded /\ last.outcome = "throw" =>
       last.op = "observerThrow" /\ last.thrown # NoError
                                 /\ last.error = last.thrown

C1_Witness ==
  last.op = "notifyDone" /\ Len(last.seen) = 2 /\ last.value = "undefined"

\* C2 as stated: an observer registered when an entry is recorded is invoked
\* exactly once with it, in registration order.
C2_ExactlyOncePerEntry ==
  ThrowingCallEnded =>
    /\ \A o \in Observers :
         Count(last.snap, o) > 0 => Count(last.seen, o) = 1
    /\ \A i, j \in DOMAIN last.seen :
         i < j => \E k, l \in DOMAIN last.snap :
                    k < l /\ last.snap[k] = last.seen[i]
                          /\ last.snap[l] = last.seen[j]

\* C2 amended: the observers invoked with an entry are invoked with that
\* exact entry, in the order of the observer list, once per occurrence in
\* the list as it was when the entry was recorded.  When the notification
\* runs to its end that list is a prefix of the invoked observers (equal to
\* them when registerObserver did not run meanwhile); when an observer
\* throws, the invoked observers and that list are prefixes of one another.
C2_InvokedInListOrder ==
  /\ last.op = "notifyDone" =>
       /\ IsPrefix(last.snap, last.seen)
       /\ ~last.grew => last.seen = last.snap
  /\ last.op = "observerThrow" =>
       /\ IsPrefix(last.seen, last.snap) \/ IsPrefix(last.snap, last.seen)
       /\ ~last.grew => IsPrefix(last.seen, last.snap)
  /\ \A i \in DOMAIN stack :
       stack[i].kind = "observer" =>
         /\ stack[i - 1].kind = "notify"
         /\ stack[i].entry = stack[i - 1].entry
         /\ stack[i - 1].seen # <<>>
         /\ stack[i - 1].seen[Len(stack[i - 1].seen)] = stack[i].obs
         /\ IsPrefix(stack[i - 1].seen, stack[i - 1].snap)
              \/ IsPrefix(stack[i - 1].snap, stack[i - 1].seen)

C2_Witness ==
  /\ last.op = "notifyDone"
  /\ last.seen = <<"o2", "o1">>
  /\ last.snap = last.seen

\* C3: with no clearRegistry since the entry sequence was empty, its length
\* equals the number of wrapped calls whose original method threw.
C3_LengthIsNumberOfThrows == Len(errorRegistryEntries) = thrownSinceClear

C3_Witness ==
  /\ thrownSinceClear = 2
  /\ Len(errorRegistryEntries) = 2
  /\ last.op = "methodReturn"
  /\ errorRegistryObservers # <<>>

\* C4: an observer is never invoked with an entry recorded after its
\* unregisterObserver returned, unless it was registered again since.
C4_NoCallAfterUnregister ==
  last.op = "invoke" => last.obs \notin stack[Len(stack) - 1].ban

C4_Witness ==
  /\ last.op = "invoke"
  /\ last.obs = "o2"
  /\ stack[Len(stack) - 1].ban = {"o1"}

\* C5: when the original method returns normally, the wrapped call returns
\* that result, appends no entry and invokes no observer.
C5_NormalReturnPassesThrough ==
  [][last'.op = "methodReturn" =>
       /\ last'.outcome = "return"
       /\ last'.value = last'.orig
       /\ errorRegistryEntries' = errorRegistryEntries
       /\ stack' = Pop(stack)]_vars

C5_Witness ==
  /\ last.op = "methodReturn"
  /\ last.value = "ok"
  /\ errorRegistryObservers # <<>>

\* C6: every recorded entry has error = the thrown value, context = the
\* receiver of the call, constructor_name = the name of the type that
\* defines the wrapped method, and method_name = the name of the method.
C6_EntryFields ==
  last.op = "catch" =>
    /\ last.entry.error = last.thrown
    /\ last.entry.context = last.recv
    /\ last.entry.constructor_name = last.method.cls
    /\ last.entry.method_name = last.method.name
    /\ errorRegistryEntries[Len(errorRegistryEntries)] = last.entry

\* C7: immediately after clearRegistry the entry sequence is empty.
C7_ClearLeavesEmpty == last.op = "clearRegistry" => errorRegistryEntries = <<>>

C7_Witness ==
  last.op = "clearRegistry" /\ last.count = 2 /\ errorRegistryEntries = <<>>

\* C8: when an observer throws during a notification, the wrapped call ends
\* with the observer's error instead of returning undefined.
C8_ObserverThrowPropagates ==
  last.op = "observerThrow" =>
    /\ last.outcome = "throw"
    /\ last.error = last.thrown
    /\ last.value # "undefined"

C8_Witness ==
  /\ last.op = "observerThrow"
  /\ last.outcome = "throw"
  /\ last.error = Oops
  /\ last.entry.error = Boom

\* C9: the observers invoked for an entry are exactly those in the observer
\* list at the moment the error is caught, in order, also when an observer
\* registers or unregisters observers during the notification.
C9_SnapshotIteration == last.op = "notifyDone" => last.seen = last.snap

C11_ViewAlwaysCurrent ==
  held.alias # "none" => HeldView = errorRegistryEntries

\* C11 amended: the returned array shows the registry's current entry
\* sequence, later entries included, until the next clearRegistry; from then
\* on it keeps the entries it had at that clear and never changes.
C11_LiveUntilCleared ==
  [][/\ held'.alias # "none" /\ ~held'.cleared =>
          HeldView' = errorRegistryEntries'
     /\ held.cleared /\ last'.op # "holdRegistry" => HeldView' = HeldView
     /\ last'.op = "clearRegistry" /\ held.alias # "none" =>
          HeldView' = HeldView /\ held'.cleared]_vars

C11_Witness ==
  /\ held.alias = "live"
  /\ ~held.cleared
  /\ last.op = "catch"
  /\ HeldView = errorRegistryEntries
  /\ Len(HeldView) = 2

C13_FrameConditions ==
  [][/\ \/ errorRegistryEntries' = errorRegistryEntries
        \/ /\ last'.op = "catch"
           /\ Len(errorRegistryEntries') = Len(errorRegistryEntries) + 1
           /\ SubSeq(errorRegistryEntries', 1, Len(errorRegistryEntries))
                = errorRegistryEntries
        \/ /\ last'.op = "clearRegistry"
           /\ errorRegistryEntries' = <<>>
     /\ errorRegistryObservers' # errorRegistryObservers =>
          last'.op \in {"registerObserver", "unregisterObserver"}
     /\ last'.op \in {"call", "methodReturn", "catch", "invoke",
                      "observerReturn", "observerThrow", "notifyDone",
                      "getRegistry", "clearRegistry", "logRegistry"} =>
          errorRegistryObservers' = errorRegistryObservers
     /\ last'.op \in {"registerObserver", "unregisterObserver",
                      "getRegistry", "logRegistry"} =>
          errorRegistryEntries' = errorRegistryEntries]_vars

C13_Witness ==
  /\ last.op = "catch"
  /\ Len(errorRegistryEntries) = 2
  /\ Len(errorRegistryObservers) = 2

\* C14: clearRegistry invokes no observer: no observer starts running and
\* the observers invoked so far by the running notifications are the same
\* before and after the clear.
C14_ClearInvokesNoObserver ==
  [][last'.op = "clearRegistry" =>
       /\ stack' = stack
       /\ last'.obs = "none"
       /\ errorRegistryObservers' = errorRegistryObservers]_vars

C14_Witness ==
  /\ last.op = "clearRegistry"
  /\ last.count = 1
  /\ errorRegistryObservers # <<>>
  /\ stack # <<>>
  /\ Top.kind = "observer"

\* C15: the entry sequence is in the chronological order of the catches:
\* of two entries in it, the one caught earlier is at the lower index, also
\* when the catches are nested in an original method or in an observer.
C15_ChronologicalOrder ==
  \A i, j \in DOMAIN errorRegistryEntries :
    i < j =>
      errorRegistryEntries[i].timestamp < errorRegistryEntries[j].timestamp

\* An observer notified of the first entry made the call that recorded the
\* second one.
C15_Witness ==
  /\ Len(stack) >= 3
  /\ stack[1].kind = "notify"
  /\ stack[2].kind = "observer"
  /\ stack[3].kind = "notify"
  /\ errorRegistryEntries = <<stack[1].entry, stack[3].entry>>

C17_NestedNotifiesEveryObserver ==
  ( /\ last.op \in {"notifyDone", "observerThrow"}
    /\ Len(stack) >= 2
    /\ Top.kind = "observer"
    /\ stack[Len(stack) - 1].kind = "notify" )
    => IsPrefix(last.snap, last.seen)

\* C17 amended: the notification of e1 stands still while anything runs
\* above it, and when the notification of e2 made inside an observer runs
\* to its end (no observer throws during it), every observer registered when
\* e2 was recorded has received e2 before the loop over e1 goes on, so those
\* of them still to come in the loop over e1 receive e2 before e1, although
\* e1 was recorded first.
C17_DepthFirst ==
  [][/\ \A i \in 1..(Len(stack) - 1) :
          i <= Len(stack') =>
            /\ stack'[i].entry = stack[i].entry
            /\ stack'[i].idx = stack[i].idx
            /\ stack'[i].seen = stack[i].seen
     /\ ( /\ last'.op = "notifyDone"
          /\ Len(stack) >= 3
          /\ stack[Len(stack) - 1].kind = "observer" ) =>
          LET e1 == stack[Len(stack) - 2]
          IN
            /\ e1.kind = "notify"
            /\ IsPrefix(last'.snap, last'.seen)
            /\ e1.entry.timestamp < last'.entry.timestamp
            /\ e1.seen[Len(e1.seen)] = stack[Len(stack) - 1].obs
            /\ \A k \in (Len(e1.seen) + 1)..Len(IterArray(e1)) :
                 (\E j \in DOMAIN last'.snap :
                    last'.snap[j] = IterArray(e1)[k])
                   => \E j \in DOMAIN last'.seen :
                        last'.seen[j] = IterArray(e1)[k]]_vars

C17_Witness ==
  /\ last.op = "notifyDone"
  /\ Len(stack) = 2
  /\ stack[1].kind = "notify"
  /\ stack[2].kind = "observer"
  /\ stack[2].obs = "o1"
  /\ stack[1].seen = <<"o1">>
  /\ IterArray(stack[1]) = <<"o1", "o2">>
  /\ last.seen = <<"o1", "o2">>
  /\ errorRegistryEntries = <<stack[1].entry, last.entry>>

\* C18: the notification of one entry makes finitely many observer
\* invocations, also when observers call registerObserver meanwhile: no step
\* adds to the rounds a running notification loop still has to make, so each
\* invocation brings the loop nearer to its end.
C18_RoundsLeftNeverGrow ==
  [][\A i \in DOMAIN stack :
       ( /\ stack[i].kind = "notify"
         /\ i <= Len(stack')
         /\ stack'[i].kind = "notify"
         /\ stack'[i].entry = stack[i].entry ) =>
         RoundsLeft(stack'[i], errorRegistryObservers')
           <= RoundsLeft(stack[i], errorRegistryObservers)]_vars

====
